---- MODULE Spec2Model ----
(***************************************************************************)
(* Polymarket smart-money bot: the trade fetcher (services/polymarket.py), *)
(* the smart-money classifier (services/nansen.py), the per-conversation   *)
(* filter cache (app.py) and the rendering predicate (utils/fmt.py).       *)
(*                                                                         *)
(* The specifications of the module:                                      *)
(*   SpecFetch     one invocation of query_trades after another, one       *)
(*                 (collection, time field) attempt per step;              *)
(*   SpecFetchLive SpecFetch with the fairness the POST timeout gives;     *)
(*   SpecNormalize _normalize_item applied to the items of an answer;      *)
(*   SpecClassify  calls of the memoized is_smart_money, one per step;     *)
(*   SpecLabels    is_smart_money against every kind of provider answer;   *)
(*   Spec          the handlers of app.py, one whole handler per step;     *)
(*   SpecRender    the handlers over a cached set of any length;           *)
(*   SpecSessions  the handlers of two conversations, interleaved.         *)
(***************************************************************************)
EXTENDS Integers, Sequences, FiniteSets, TLC

VARIABLES
    \* ---- query_trades (services/polymarket.py) ----
    fetch_pc,     \* "idle" | "loop" | "returned" | "raised"
    ci, ti,       \* positions of the two for loops of query_trades
    last_error,   \* the local last_error (NoError models None)
    requests,     \* the (collection, tfield) pairs POSTed by this invocation
    lastResp,     \* the endpoint's answer to the latest POST
    q_out,        \* what the invocation returned or raised
    \* ---- is_smart_money (services/nansen.py) ----
    apiKey,       \* whether NANSEN_API_KEY is set in the environment
    cache,        \* the lru_cache of is_smart_money, least recently used first
    lastCall,     \* the latest call of is_smart_money and what it did
    lastAnswer,   \* the provider's answer to that call's POST, if it sent one
    prevCall,     \* the call before it
    \* ---- handlers (app.py) ----
    user_data,    \* context.user_data["smart_trades"] of every conversation
    reply,        \* the message last sent to / edited in every conversation
    lastOp        \* the latest handler run: its inputs and what it issued

fetchVars == <<fetch_pc, ci, ti, last_error, requests, lastResp, q_out>>
classifyVars == <<apiKey, cache, lastCall, lastAnswer, prevCall>>
appVars == <<user_data, reply, lastOp>>
vars == <<fetch_pc, ci, ti, last_error, requests, lastResp, q_out,
          apiKey, cache, lastCall, lastAnswer, prevCall, user_data, reply, lastOp>>

(***************************************************************************)
(* JSON values as the Python code sees them: a tag and a payload.          *)
(***************************************************************************)
Null == [t |-> "null"]
Str(s) == [t |-> "str", v |-> s]
Dict(d) == [t |-> "dict", v |-> d]
List(l) == [t |-> "list", v |-> l]

IsDict(x) == x.t = "dict"

\* Python truthiness of a JSON value (`not x`).
Falsy(x) ==
    \/ x.t = "null"
    \/ (x.t = "str" /\ x.v = "")
    \/ (x.t = "dict" /\ DOMAIN x.v = {})
    \/ (x.t = "list" /\ x.v = <<>>)

\* dict.get(k) with the default None.
Get(d, k) == IF k \in DOMAIN d THEN d[k] ELSE Null

EmptyDict == [k \in {} |-> Null]

(***************************************************************************)
(* services/polymarket.py                                                  *)
(***************************************************************************)
CANDIDATE_COLLECTIONS ==
    <<"fills", "marketFills", "trades", "tradeEvents", "swaps", "orders", "marketTrades">>

CANDIDATE_TIME_FIELDS ==
    <<"matchTime", "timestamp", "createdAt", "blockTimestamp", "filledAt">>

CANDIDATE_MAKER_FIELDS == <<"makerAddress", "maker", "trader", "from", "user">>
CANDIDATE_SIZE_FIELDS == <<"size", "amount", "qty", "quantity">>
CANDIDATE_PRICE_FIELDS == <<"price", "avgPrice", "fillPrice">>
CANDIDATE_OUTCOME_FIELDS == <<"outcome", "side", "position">>
CANDIDATE_MARKET_FIELD == "market"
CANDIDATE_MARKET_ID_FIELDS == <<"id", "marketId">>
CANDIDATE_MARKET_QUESTION_FIELDS == <<"question", "title", "name">>

\* last_error = None
NoError == [msg |-> "None", detail |-> "", collection |-> "", tfield |-> ""]

(* What the endpoint can answer to one POST.  kind:                        *)
(*   neterr          requests.post raises (connection, timeout)            *)
(*   http            a non-2xx status: raise_for_status raises             *)
(*   badjson         the body is not JSON                                  *)
(*   top_scalar      JSON number / null / boolean at the top level         *)
(*   top_list        JSON array at the top level                           *)
(*   errors          an object with an "errors" member                     *)
(*   data_missing    an object with neither "errors" nor "data"            *)
(*   data_notdict    an object whose "data" is null or not an object       *)
(*   payload_notlist data.<collection> is present and is not an array      *)
(*   list            data.<collection> is the array `items`                *)
(* text stands for the body / exception text the diagnostic quotes.        *)
Response(kind, text, items) == [kind |-> kind, text |-> text, items |-> items]

\* _post_graphql: the exception it raises, or the parsed body it returns.
_post_graphql(resp) ==
    IF resp.kind \in {"neterr", "http"}
      THEN [exc |-> "PolymarketError", msg |-> "Failed to call Polymarket subgraph"]
    ELSE IF resp.kind = "badjson"
      THEN [exc |-> "PolymarketError", msg |-> "Invalid JSON from Polymarket"]
    ELSE IF resp.kind = "top_scalar"
      THEN [exc |-> "TypeError", msg |-> ""]
    ELSE IF resp.kind = "errors"
      THEN [exc |-> "PolymarketError", msg |-> "Polymarket query errors"]
    ELSE [exc |-> "none", msg |-> ""]

\* _first_existing without `is not None`: the first name that is present.
RECURSIVE FirstPresent(_, _)
FirstPresent(d, keys) ==
    IF keys = <<>> THEN Null
    ELSE IF Head(keys) \in DOMAIN d THEN d[Head(keys)]
    ELSE FirstPresent(d, Tail(keys))

RECURSIVE _first_existing(_, _)
_first_existing(d, keys) ==
    IF keys = <<>> THEN Null
    ELSE IF Head(keys) \in DOMAIN d /\ d[Head(keys)] # Null THEN d[Head(keys)]
    ELSE _first_existing(d, Tail(keys))

\* _normalize_item on a dict item.
_normalize_item(it, time_field) ==
    LET match_time == IF Get(it, time_field) # Null THEN Get(it, time_field)
                      ELSE _first_existing(it, CANDIDATE_TIME_FIELDS)
        got == Get(it, CANDIDATE_MARKET_FIELD)
        market_raw == IF Falsy(got) THEN Dict(EmptyDict) ELSE got
        market_id == IF IsDict(market_raw)
                     THEN _first_existing(market_raw.v, CANDIDATE_MARKET_ID_FIELDS)
                     ELSE Null
        market_question == IF IsDict(market_raw)
                           THEN _first_existing(market_raw.v, CANDIDATE_MARKET_QUESTION_FIELDS)
                           ELSE Null
    IN [id |-> Get(it, "id"),
        makerAddress |-> _first_existing(it, CANDIDATE_MAKER_FIELDS),
        outcome |-> _first_existing(it, CANDIDATE_OUTCOME_FIELDS),
        size |-> _first_existing(it, CANDIDATE_SIZE_FIELDS),
        price |-> _first_existing(it, CANDIDATE_PRICE_FIELDS),
        matchTime |-> match_time,
        market |-> [id |-> market_id, question |-> market_question]]

\* The list comprehension of line 176; it.get on a non-dict item raises.
NormalizeAll(items, time_field) ==
    IF \E i \in 1..Len(items) : ~IsDict(items[i])
      THEN [exc |-> "AttributeError", trades |-> <<>>]
      ELSE [exc |-> "none",
            trades |-> [i \in 1..Len(items) |-> _normalize_item(items[i].v, time_field)]]

Diag(msg, detail, collection, tfield) ==
    [msg |-> msg, detail |-> detail, collection |-> collection, tfield |-> tfield]

(* One iteration of the loop body of query_trades (lines 159-179) on the   *)
(* endpoint's answer: continue with a new last_error, return, or raise.    *)
Step(act, err, trades, exc) == [act |-> act, last_error |-> err, trades |-> trades, exc |-> exc]

\* The loop body with `if items:` of line 174 weakened to any list: an empty
\* list ends the search too.
AttemptPairAnyList(resp, collection, tfield, cur_error) ==
    LET posted == _post_graphql(resp) IN
    IF posted.exc = "PolymarketError"
      THEN Step("continue", Diag(posted.msg, resp.text, "", ""), <<>>, "none")
    ELSE IF posted.exc # "none"
      THEN Step("raise", cur_error, <<>>, posted.exc)
    ELSE IF resp.kind \in {"top_list", "data_notdict"}
      THEN Step("raise", cur_error, <<>>, "AttributeError")
    ELSE IF resp.kind = "payload_notlist"
      THEN Step("continue", Diag("Unexpected response", resp.text, collection, tfield),
                <<>>, "none")
    ELSE IF resp.kind = "list"
      THEN LET n == NormalizeAll(resp.items, tfield) IN
           IF n.exc = "none" THEN Step("return", cur_error, n.trades, "none")
           ELSE Step("raise", cur_error, <<>>, n.exc)
    ELSE Step("continue", Diag("Combination valid but empty", "", collection, tfield),
              <<>>, "none")

\* The loop body without line 179: an empty list leaves last_error as it was.
AttemptPairEmptyUnrecorded(resp, collection, tfield, cur_error) ==
    LET posted == _post_graphql(resp) IN
    IF posted.exc = "PolymarketError"
      THEN Step("continue", Diag(posted.msg, resp.text, "", ""), <<>>, "none")
    ELSE IF posted.exc # "none"
      THEN Step("raise", cur_error, <<>>, posted.exc)
    ELSE IF resp.kind \in {"top_list", "data_notdict"}
      THEN Step("raise", cur_error, <<>>, "AttributeError")
    ELSE IF resp.kind = "payload_notlist"
      THEN Step("continue", Diag("Unexpected response", resp.text, collection, tfield),
                <<>>, "none")
    ELSE IF resp.kind = "list" /\ resp.items # <<>>
      THEN LET n == NormalizeAll(resp.items, tfield) IN
           IF n.exc = "none" THEN Step("return", cur_error, n.trades, "none")
           ELSE Step("raise", cur_error, <<>>, n.exc)
    ELSE Step("continue", cur_error, <<>>, "none")

AttemptPair(resp, collection, tfield, cur_error) ==
    LET posted == _post_graphql(resp) IN
    IF posted.exc = "PolymarketError"
      THEN Step("continue", Diag(posted.msg, resp.text, "", ""), <<>>, "none")
    ELSE IF posted.exc # "none"
      THEN Step("raise", cur_error, <<>>, posted.exc)
    ELSE IF resp.kind \in {"top_list", "data_notdict"}
      THEN Step("raise", cur_error, <<>>, "AttributeError")
    ELSE IF resp.kind = "payload_notlist"
      THEN Step("continue", Diag("Unexpected response", resp.text, collection, tfield),
                <<>>, "none")
    ELSE IF resp.kind = "list" /\ resp.items # <<>>
      THEN LET n == NormalizeAll(resp.items, tfield) IN
           IF n.exc = "none" THEN Step("return", cur_error, n.trades, "none")
           ELSE Step("raise", cur_error, <<>>, n.exc)
    ELSE Step("continue", Diag("Combination valid but empty", "", collection, tfield),
              <<>>, "none")

\* The loop of query_trades run to its end against an endpoint that answers
\* ep[<<c, t>>] to the POST for CANDIDATE_COLLECTIONS[c], CANDIDATE_TIME_FIELDS[t].
QueryOut(kind, trades, err, reqs) ==
    [kind |-> kind, trades |-> trades, last_error |-> err, requests |-> reqs]

RECURSIVE query_loop(_, _, _, _, _)
query_loop(ep, c, t, err, reqs) ==
    IF c > Len(CANDIDATE_COLLECTIONS)
      THEN QueryOut("PolymarketError", <<>>, err, reqs)
    ELSE LET collection == CANDIDATE_COLLECTIONS[c]
             tfield == CANDIDATE_TIME_FIELDS[t]
             s == AttemptPair(ep[<<c, t>>], collection, tfield, err)
             sent == Append(reqs, <<collection, tfield>>)
         IN IF s.act = "return" THEN QueryOut("ok", s.trades, err, sent)
            ELSE IF s.act = "raise" THEN QueryOut(s.exc, <<>>, err, sent)
            ELSE IF t < Len(CANDIDATE_TIME_FIELDS)
              THEN query_loop(ep, c, t + 1, s.last_error, sent)
              ELSE query_loop(ep, c + 1, 1, s.last_error, sent)

query_trades(ep) == query_loop(ep, 1, 1, NoError, <<>>)

(***************************************************************************)
(* The endpoint's answers the model draws from.                            *)
(***************************************************************************)
MaxItems == 2

\* The scenario of the specification: canonical field names, a market object.
ItemA == Dict([id |-> Str("1"), makerAddress |-> Str("0xA"), outcome |-> Str("YES"),
               size |-> Str("10"), price |-> Str("0.5"), matchTime |-> Str("1000"),
               market |-> Dict([id |-> Str("m1"), question |-> Str("Q1")])])
\* Alternate field names, lower-case outcome, no market.
ItemB == Dict([id |-> Str("2"), maker |-> Str("0xB"), side |-> Str("no"),
               amount |-> Str("5"), timestamp |-> Str("2000")])
\* A null maker under the first name and no alternate; the market is not an object.
ItemN == Dict([id |-> Str("3"), makerAddress |-> Null, outcome |-> Str("NO"),
               market |-> Str("m3")])
\* A list element that is not an object.
ItemJunk == Str("junk")
\* A trade whose outcome is absent under every name.
ItemNoOutcome == Dict([id |-> Str("4"), trader |-> Str("0xC"), size |-> Str("1")])

SeqsUpTo(S, n) == UNION {[1..k -> S] : k \in 0..n}

ErrorTexts == {"e1", "e2"}

FailureResponses ==
    {Response(k, x, <<>>) :
        k \in {"neterr", "http", "badjson", "top_scalar", "top_list", "errors",
               "data_missing", "data_notdict", "payload_notlist"},
        x \in ErrorTexts}

ListResponses(items) == {Response("list", "", l) : l \in SeqsUpTo(items, MaxItems)}

FetchResponses == FailureResponses \cup ListResponses({ItemA, ItemB, ItemN, ItemJunk})

NoResp == Response("none", "", <<>>)
NoOut == QueryOut("none", <<>>, NoError, <<>>)

(***************************************************************************)
(* SpecFetch: query_trades, one attempt per step.                          *)
(***************************************************************************)
FetchIdle ==
    /\ fetch_pc = "idle" /\ ci = 1 /\ ti = 1 /\ last_error = NoError
    /\ requests = <<>> /\ lastResp = NoResp /\ q_out = NoOut

\* lines 152-155: a new invocation.
Call ==
    /\ fetch_pc \in {"idle", "returned", "raised"}
    /\ fetch_pc' = "loop"
    /\ ci' = 1 /\ ti' = 1
    /\ last_error' = NoError
    /\ requests' = <<>>
    /\ lastResp' = NoResp
    /\ q_out' = NoOut
    /\ UNCHANGED <<classifyVars, appVars>>

\* The loop body with one retry: a pair whose POST failed in transport is
\* requested a second time before the loops move on.
AttemptRetryOnce ==
    /\ fetch_pc = "loop"
    /\ ci <= Len(CANDIDATE_COLLECTIONS)
    /\ \E resp \in FetchResponses :
         LET collection == CANDIDATE_COLLECTIONS[ci]
             tfield == CANDIDATE_TIME_FIELDS[ti]
             s == AttemptPair(resp, collection, tfield, last_error)
             sent == Append(requests, <<collection, tfield>>)
             retry == /\ resp.kind = "neterr"
                      /\ \/ requests = <<>>
                         \/ requests[Len(requests)] # <<collection, tfield>>
         IN /\ requests' = sent
            /\ lastResp' = resp
            /\ last_error' = s.last_error
            /\ CASE s.act = "return" ->
                      /\ fetch_pc' = "returned"
                      /\ q_out' = QueryOut("ok", s.trades, last_error, sent)
                      /\ UNCHANGED <<ci, ti>>
                 [] s.act = "raise" ->
                      /\ fetch_pc' = "raised"
                      /\ q_out' = QueryOut(s.exc, <<>>, last_error, sent)
                      /\ UNCHANGED <<ci, ti>>
                 [] OTHER ->
                      /\ UNCHANGED <<fetch_pc, q_out>>
                      /\ IF retry THEN UNCHANGED <<ci, ti>>
                         ELSE IF ti < Len(CANDIDATE_TIME_FIELDS)
                           THEN ti' = ti + 1 /\ ci' = ci
                           ELSE ti' = 1 /\ ci' = ci + 1
    /\ UNCHANGED <<classifyVars, appVars>>

\* lines 157-179: the body of the loops for the current pair.
Attempt ==
    /\ fetch_pc = "loop"
    /\ ci <= Len(CANDIDATE_COLLECTIONS)
    /\ \E resp \in FetchResponses :
         LET collection == CANDIDATE_COLLECTIONS[ci]
             tfield == CANDIDATE_TIME_FIELDS[ti]
             s == AttemptPair(resp, collection, tfield, last_error)
             sent == Append(requests, <<collection, tfield>>)
         IN /\ requests' = sent
            /\ lastResp' = resp
            /\ last_error' = s.last_error
            /\ CASE s.act = "return" ->
                      /\ fetch_pc' = "returned"
                      /\ q_out' = QueryOut("ok", s.trades, last_error, sent)
                      /\ UNCHANGED <<ci, ti>>
                 [] s.act = "raise" ->
                      /\ fetch_pc' = "raised"
                      /\ q_out' = QueryOut(s.exc, <<>>, last_error, sent)
                      /\ UNCHANGED <<ci, ti>>
                 [] OTHER ->
                      /\ UNCHANGED <<fetch_pc, q_out>>
                      /\ IF ti < Len(CANDIDATE_TIME_FIELDS)
                           THEN ti' = ti + 1 /\ ci' = ci
                           ELSE ti' = 1 /\ ci' = ci + 1
    /\ UNCHANGED <<classifyVars, appVars>>

\* lines 181-186: every pair was tried.
Exhausted ==
    /\ fetch_pc = "loop"
    /\ ci > Len(CANDIDATE_COLLECTIONS)
    /\ fetch_pc' = "raised"
    /\ q_out' = QueryOut("PolymarketError", <<>>, last_error, requests)
    /\ UNCHANGED <<ci, ti, last_error, requests, lastResp>>
    /\ UNCHANGED <<classifyVars, appVars>>

(***************************************************************************)
(* services/nansen.py                                                      *)
(***************************************************************************)
SMART_LABELS == {"Smart Trader", "30D Smart Trader", "90D Smart Trader",
                 "180D Smart Trader", "Fund"}

lru_maxsize == 512

(* What the labelling provider can answer to one POST.  kind:              *)
(*   neterr        requests.post raises                                    *)
(*   status        a status code other than 200                            *)
(*   badjson       status 200, the body is not JSON                        *)
(*   top_notdict   the JSON top level is not an object                     *)
(*   data_missing  an object without "data"                                *)
(*   data_notdict  "data" is null or not an object                         *)
(*   items_notlist data.items is present and is not an array               *)
(*   list          data.items is the array `items`                         *)
NansenResponse(kind, items) == [kind |-> kind, items |-> items]

Result(exc, smart, labels) == [exc |-> exc, smart |-> smart, labels |-> labels]

\* line 61: item.get("label") of every item that is an object.
RECURSIVE LabelNames(_)
LabelNames(items) ==
    IF items = <<>> THEN <<>>
    ELSE IF IsDict(Head(items))
      THEN <<Get(Head(items).v, "label")>> \o LabelNames(Tail(items))
      ELSE LabelNames(Tail(items))

\* line 62: any(label in SMART_LABELS ...), left to right; hashing a list or
\* an object raises TypeError unless a smart label was found before it.
RECURSIVE AnySmart(_)
AnySmart(names) ==
    IF names = <<>> THEN [exc |-> "none", smart |-> FALSE]
    ELSE IF Head(names).t \in {"list", "dict"} THEN [exc |-> "TypeError", smart |-> FALSE]
    ELSE IF Head(names).t = "str" /\ Head(names).v \in SMART_LABELS
      THEN [exc |-> "none", smart |-> TRUE]
    ELSE AnySmart(Tail(names))

\* line 63 with `if label in SMART_LABELS`: only the smart labels returned.
RECURSIVE SmartOnly(_)
SmartOnly(names) ==
    IF names = <<>> THEN <<>>
    ELSE IF Head(names).t = "str" /\ Head(names).v \in SMART_LABELS
      THEN <<Head(names)>> \o SmartOnly(Tail(names))
    ELSE SmartOnly(Tail(names))

\* line 63: the labels that are truthy.
RECURSIVE Truthy(_)
Truthy(names) ==
    IF names = <<>> THEN <<>>
    ELSE IF Falsy(Head(names)) THEN Truthy(Tail(names))
    ELSE <<Head(names)>> \o Truthy(Tail(names))

\* The body of is_smart_money (lines 45-63) once the POST was answered.
ParseLabels(resp) ==
    IF resp.kind = "neterr" THEN Result("NansenError", FALSE, <<>>)
    ELSE IF resp.kind = "status" THEN Result("NansenError", FALSE, <<>>)
    ELSE IF resp.kind = "badjson" THEN Result("ValueError", FALSE, <<>>)
    ELSE IF resp.kind \in {"top_notdict", "data_notdict"}
      THEN Result("AttributeError", FALSE, <<>>)
    ELSE IF resp.kind = "items_notlist" THEN Result("NansenError", FALSE, <<>>)
    ELSE LET labels == IF resp.kind = "list" THEN resp.items ELSE <<>>
             label_names == LabelNames(labels)
             any == AnySmart(label_names)
         IN IF any.exc # "none" THEN Result(any.exc, FALSE, <<>>)
            ELSE Result("none", any.smart, Truthy(label_names))

\* A lookup that never finds the key: is_smart_money without its decorator.
LookupMiss(c, address) == 0

\* Position of `address` in the cache, 0 when it is not cached.
Lookup(c, address) ==
    IF \E i \in 1..Len(c) : c[i].key = address
      THEN CHOOSE i \in 1..Len(c) : c[i].key = address
      ELSE 0

Without(c, i) == [j \in 1..(Len(c) - 1) |-> IF j < i THEN c[j] ELSE c[j + 1]]

\* A full cache that drops its most recently used entry.
StoreDropNewest(c, address, val) ==
    LET kept == IF Len(c) >= lru_maxsize THEN SubSeq(c, 1, Len(c) - 1) ELSE c
    IN Append(kept, [key |-> address, val |-> val])

\* functools.lru_cache on a miss whose call returned: the new entry becomes
\* the most recently used; a full cache drops its least recently used one.
Store(c, address, val) ==
    LET kept == IF Len(c) >= lru_maxsize THEN Tail(c) ELSE c
    IN Append(kept, [key |-> address, val |-> val])

(* is_smart_money(address) as the handlers call it (chain left to its      *)
(* default), through @lru_cache: the outcome, the cache afterwards, and    *)
(* whether a POST went to the provider.                                    *)
Called(address, out, c, net, hit) ==
    [address |-> address, out |-> out, cache |-> c, net |-> net, hit |-> hit]

\* A memo that also remembers failures: a call that raised is stored as
\* (False, []) and answered from the cache afterwards.
MemoizeFailures(c, key_set, address, resp) ==
    LET i == Lookup(c, address) IN
    IF i # 0
      THEN Called(address, Result("none", c[i].val.smart, c[i].val.labels),
                  Append(Without(c, i), c[i]), FALSE, TRUE)
    ELSE IF ~key_set
      THEN Called(address, Result("RuntimeError", FALSE, <<>>),
                  Store(c, address, [smart |-> FALSE, labels |-> <<>>]), FALSE, FALSE)
    ELSE LET r == ParseLabels(resp) IN
         IF r.exc # "none"
           THEN Called(address, r, Store(c, address, [smart |-> FALSE, labels |-> <<>>]),
                       TRUE, FALSE)
         ELSE Called(address, r,
                     Store(c, address, [smart |-> r.smart, labels |-> r.labels]),
                     TRUE, FALSE)

is_smart_money(c, key_set, address, resp) ==
    LET i == Lookup(c, address) IN
    IF i # 0
      THEN Called(address, Result("none", c[i].val.smart, c[i].val.labels),
                  Append(Without(c, i), c[i]), FALSE, TRUE)
    ELSE IF ~key_set
      THEN Called(address, Result("RuntimeError", FALSE, <<>>), c, FALSE, FALSE)
    ELSE LET r == ParseLabels(resp) IN
         IF r.exc # "none" THEN Called(address, r, c, TRUE, FALSE)
         ELSE Called(address, r,
                     Store(c, address, [smart |-> r.smart, labels |-> r.labels]),
                     TRUE, FALSE)

(***************************************************************************)
(* utils/fmt.py                                                            *)
(***************************************************************************)
max_rows == 12

\* str.upper() on the outcome strings the model's items carry.
Upper(x) ==
    CASE x \in {"yes", "Yes", "YES"} -> "YES"
      [] x \in {"no", "No", "NO"} -> "NO"
      [] OTHER -> x

\* filter_outcome = None
NoFilter == "None"

\* line 49 without .upper(): the stored outcome compared as it is.
OutcomeOfExact(trade) ==
    IF Falsy(Get(trade, "outcome")) THEN "" ELSE trade["outcome"].v

\* line 49: (trade.get("outcome") or "").upper()
OutcomeOf(trade) ==
    IF Falsy(Get(trade, "outcome")) THEN "" ELSE Upper(trade["outcome"].v)

\* lines 48-69: the rows of the message, at most max_rows of them.
RECURSIVE Rows(_, _, _)
Rows(trades, filter_outcome, count) ==
    IF trades = <<>> \/ count >= max_rows THEN <<>>
    ELSE IF filter_outcome # NoFilter /\ OutcomeOf(Head(trades)) # filter_outcome
      THEN Rows(Tail(trades), filter_outcome, count)
    ELSE <<Head(trades)>> \o Rows(Tail(trades), filter_outcome, count + 1)

\* build_message: the filter named in the header, which body is shown, and
\* the trades listed.
Message(kind, filter_outcome, rows) ==
    [kind |-> kind, filter |-> filter_outcome, rows |-> rows]

build_message(trades, filter_outcome) ==
    IF trades = <<>> THEN Message("none_found", filter_outcome, <<>>)
    ELSE LET lines == Rows(trades, filter_outcome, 0) IN
         IF lines = <<>> THEN Message("no_match", filter_outcome, <<>>)
         ELSE Message("trades", filter_outcome, lines)

(***************************************************************************)
(* app.py                                                                  *)
(***************************************************************************)
\* {**trade, "labels": labels}
Enrich(trade, labels) ==
    [k \in DOMAIN trade \cup {"labels"} |-> IF k = "labels" THEN labels ELSE trade[k]]

\* What the loop did for one trade: whether is_smart_money was called,
\* whether the call sent a POST, and what it returned or raised.
Logged(maker, called, net, out) ==
    [maker |-> maker, called |-> called, net |-> net,
     exc |-> out.exc, smart |-> out.smart, labels |-> out.labels]

Classified(smart_trades, c, log) == [smart_trades |-> smart_trades, cache |-> c, log |-> log]

\* The loop with `break` in the except clause: a failed classification ends it.
RECURSIVE ClassifyLoopBreak(_, _, _, _, _, _, _)
ClassifyLoopBreak(trades, i, c, key_set, nansen, smart_trades, log) ==
    IF i > Len(trades) THEN Classified(smart_trades, c, log)
    ELSE LET trade == trades[i]
             maker == Get(trade, "makerAddress")
         IN IF Falsy(maker)
              THEN ClassifyLoopBreak(trades, i + 1, c, key_set, nansen, smart_trades,
                       Append(log, Logged(maker, FALSE, FALSE, Result("none", FALSE, <<>>))))
              ELSE LET r == is_smart_money(c, key_set, maker.v, nansen[i])
                       entry == Logged(maker, TRUE, r.net, r.out)
                   IN IF r.out.exc # "none"
                        THEN Classified(smart_trades, r.cache, Append(log, entry))
                      ELSE IF r.out.smart
                        THEN ClassifyLoopBreak(trades, i + 1, r.cache, key_set, nansen,
                                 Append(smart_trades, Enrich(trade, r.out.labels)),
                                 Append(log, entry))
                        ELSE ClassifyLoopBreak(trades, i + 1, r.cache, key_set, nansen,
                                 smart_trades, Append(log, entry))

\* The loop with insert(0, ...) for append: the smart trades in reverse order.
RECURSIVE ClassifyLoopPrepend(_, _, _, _, _, _, _)
ClassifyLoopPrepend(trades, i, c, key_set, nansen, smart_trades, log) ==
    IF i > Len(trades) THEN Classified(smart_trades, c, log)
    ELSE LET trade == trades[i]
             maker == Get(trade, "makerAddress")
         IN IF Falsy(maker)
              THEN ClassifyLoopPrepend(trades, i + 1, c, key_set, nansen, smart_trades,
                       Append(log, Logged(maker, FALSE, FALSE, Result("none", FALSE, <<>>))))
              ELSE LET r == is_smart_money(c, key_set, maker.v, nansen[i])
                       entry == Logged(maker, TRUE, r.net, r.out)
                   IN IF r.out.exc = "none" /\ r.out.smart
                        THEN ClassifyLoopPrepend(trades, i + 1, r.cache, key_set, nansen,
                                 <<Enrich(trade, r.out.labels)>> \o smart_trades,
                                 Append(log, entry))
                        ELSE ClassifyLoopPrepend(trades, i + 1, r.cache, key_set, nansen,
                                 smart_trades, Append(log, entry))

(* The classification loop (lines 161-172, the same text as lines 97-108   *)
(* and 189-200); nansen[i] is the provider's answer should the i-th trade  *)
(* cause a POST.                                                           *)
RECURSIVE classify_loop(_, _, _, _, _, _, _)
classify_loop(trades, i, c, key_set, nansen, smart_trades, log) ==
    IF i > Len(trades) THEN Classified(smart_trades, c, log)
    ELSE LET trade == trades[i]
             maker == Get(trade, "makerAddress")
         IN IF Falsy(maker)
              THEN classify_loop(trades, i + 1, c, key_set, nansen, smart_trades,
                       Append(log, Logged(maker, FALSE, FALSE, Result("none", FALSE, <<>>))))
              ELSE LET r == is_smart_money(c, key_set, maker.v, nansen[i])
                       entry == Logged(maker, TRUE, r.net, r.out)
                   IN IF r.out.exc = "none" /\ r.out.smart
                        THEN classify_loop(trades, i + 1, r.cache, key_set, nansen,
                                 Append(smart_trades, Enrich(trade, r.out.labels)),
                                 Append(log, entry))
                        ELSE classify_loop(trades, i + 1, r.cache, key_set, nansen,
                                 smart_trades, Append(log, entry))

classify_trades(trades, c, key_set, nansen) ==
    classify_loop(trades, 1, c, key_set, nansen, <<>>, <<>>)

(***************************************************************************)
(* SpecClassify: calls of is_smart_money, one per step.                    *)
(***************************************************************************)
Label(s) == Dict([label |-> Str(s)])

NansenFailures ==
    {NansenResponse(k, <<>>) :
        k \in {"neterr", "status", "badjson", "top_notdict", "data_notdict", "items_notlist"}}

NansenLists ==
    {NansenResponse("data_missing", <<>>),
     NansenResponse("list", <<>>),
     NansenResponse("list", <<Label("Fund")>>),
     NansenResponse("list", <<Label("Whale"), Label("Smart Trader")>>),
     NansenResponse("list", <<Label("Whale")>>),
     NansenResponse("list", <<Label(""), Label("Whale"), Label("30D Smart Trader")>>),
     NansenResponse("list", <<Label("fund"), Str("junk"), Dict([name |-> Str("x")])>>),
     NansenResponse("list", <<Label("Fund"), Dict([label |-> List(<<>>)])>>),
     NansenResponse("list", <<Dict([label |-> List(<<>>)]), Label("Fund")>>)}

NansenResponses == NansenFailures \cup NansenLists

\* The answers the call-level specifications draw from: a failure, a smart
\* address, an address that is not smart.
ClassifyResponses ==
    {NansenResponse("neterr", <<>>),
     NansenResponse("list", <<Label("Fund")>>),
     NansenResponse("list", <<Label("Whale")>>)}

CallRecord(address, out, net, hit) ==
    [address |-> address, out |-> out, net |-> net, hit |-> hit]

NoCall == CallRecord("", Result("none", FALSE, <<>>), FALSE, FALSE)

\* A cache that earlier calls have filled with n addresses that are not smart.
Filled(n) ==
    [i \in 1..n |-> [key |-> "0x" \o ToString(i), val |-> [smart |-> FALSE, labels |-> <<>>]]]

ClassifyAddresses == {"0xA", "0xB", "0x1"}

NoAnswer == NansenResponse("none", <<>>)

ClassifyIdle == lastCall = NoCall /\ prevCall = NoCall /\ lastAnswer = NoAnswer

Classify ==
    /\ \E address \in ClassifyAddresses, resp \in ClassifyResponses :
         LET r == is_smart_money(cache, apiKey, address, resp) IN
         /\ cache' = r.cache
         /\ prevCall' = lastCall
         /\ lastCall' = CallRecord(address, r.out, r.net, r.hit)
         /\ lastAnswer' = IF r.net THEN resp ELSE NoAnswer
    /\ UNCHANGED <<apiKey, fetchVars, appVars>>

(***************************************************************************)
(* SpecLabels: calls of is_smart_money against every kind of answer the    *)
(* provider can give, one call per step.                                   *)
(***************************************************************************)
LabelAddresses == {"0xA", "0xB"}

ClassifyAny ==
    /\ \E address \in LabelAddresses, resp \in NansenResponses :
         LET r == is_smart_money(cache, apiKey, address, resp) IN
         /\ cache' = r.cache
         /\ prevCall' = lastCall
         /\ lastCall' = CallRecord(address, r.out, r.net, r.hit)
         /\ lastAnswer' = IF r.net THEN resp ELSE NoAnswer
    /\ UNCHANGED <<apiKey, fetchVars, appVars>>

(***************************************************************************)
(* Spec: the handlers of app.py, a whole handler per step.  The calls of   *)
(* query_trades and is_smart_money block the event loop, so between its    *)
(* first await and its last a handler runs alone.                          *)
(***************************************************************************)
MaxTrades == 2

Sessions == {"chat1", "chat2"}

\* The conversation whose handlers Spec runs.
ActiveSessions == {"chat1"}

PairIdx == (1..Len(CANDIDATE_COLLECTIONS)) \X (1..Len(CANDIDATE_TIME_FIELDS))

Uniform(r) == [p \in PairIdx |-> r]

AnswerAt(p0, good, bad) == [p \in PairIdx |-> IF p = p0 THEN good ELSE bad]

TradeLists == SeqsUpTo({ItemA, ItemB, ItemN}, MaxTrades) \ {<<>>}

Endpoints ==
    {Uniform(Response("neterr", "e1", <<>>)),
     Uniform(Response("list", "", <<>>)),
     Uniform(Response("data_notdict", "e1", <<>>)),
     AnswerAt(<<3, 2>>, Response("list", "", <<ItemA>>), Response("errors", "e2", <<>>))}
    \cup {AnswerAt(<<1, 1>>, Response("list", "", l), Response("errors", "e1", <<>>)) :
            l \in TradeLists}

FetchOutcomes == {query_trades(ep) : ep \in Endpoints}

NoCache == [set |-> FALSE, list |-> <<>>]
Cached(l) == [set |-> TRUE, list |-> l]

\* `if cached:` in place of line 177: an empty cached list counts as absent.
HasCacheTruthy(cached) == cached.set /\ cached.list # <<>>

\* user_data.get("smart_trades", []) in place of line 176: an absent set
\* counts as an empty cached one.
HasCacheDefaultList(cached) == TRUE

\* line 177: isinstance(cached, list)
HasCache(cached) == cached.set

\* smart_trades appended to the set already stored.
StoreTradesMerged(ud, s, smart_trades) ==
    [ud EXCEPT ![s] = Cached(ud[s].list \o smart_trades)]

\* A module-level smart_trades in place of context.user_data: one set for
\* every conversation.
StoreTradesShared(ud, s, smart_trades) == [t \in DOMAIN ud |-> Cached(smart_trades)]

\* lines 110, 173, 201: context.user_data["smart_trades"] = smart_trades
StoreTrades(ud, s, smart_trades) == [ud EXCEPT ![s] = Cached(smart_trades)]

NoReply == Message("nothing", NoFilter, <<>>)
Apology(which) == Message(which, NoFilter, <<>>)

\* What a handler run did: the update, the query_trades invocations it made
\* (0 or 1) with the outcome, and the log of its classification loop.
Op(handler, s, action, passes, fetch, log) ==
    [handler |-> handler, session |-> s, action |-> action,
     passes |-> passes, fetch |-> fetch, log |-> log]

NoOp == Op("none", "", "", 0, NoOut, <<>>)

AppIdle ==
    /\ user_data = [s \in Sessions |-> NoCache]
    /\ reply = [s \in Sessions |-> NoReply]
    /\ lastOp = NoOp

\* `trades = []` in the except clause: a failed fetch shown as an empty result.
FetchFailedAsEmpty(handler, s, action, f, which) ==
    /\ f.kind # "ok"
    /\ reply' = [reply EXCEPT ![s] = build_message(<<>>, NoFilter)]
    /\ user_data' = StoreTrades(user_data, s, <<>>)
    /\ lastOp' = Op(handler, s, action, 1, f, <<>>)
    /\ UNCHANGED cache

\* user_data.pop("smart_trades", None) in the except clause: a failed fetch
\* forgets the cached set.
FetchFailedDropsCache(handler, s, action, f, which) ==
    /\ f.kind # "ok"
    /\ reply' = [reply EXCEPT ![s] = Apology(which)]
    /\ user_data' = [user_data EXCEPT ![s] = NoCache]
    /\ lastOp' = Op(handler, s, action, 1, f, <<>>)
    /\ UNCHANGED cache

\* lines 88-95, 152-159, 180-187: query_trades raised; the apology is sent.
FetchFailed(handler, s, action, f, which) ==
    /\ f.kind # "ok"
    /\ reply' = [reply EXCEPT ![s] = Apology(which)]
    /\ lastOp' = Op(handler, s, action, 1, f, <<>>)
    /\ UNCHANGED <<user_data, cache>>

\* The provider's answers a run of the loop can meet: one for every trade
\* that can cause a POST (a maker that is present and not cached beforehand).
NansenAnswers(trades, c) ==
    {nansen \in [1..Len(trades) -> ClassifyResponses] :
        \A i \in 1..Len(trades) :
            (Falsy(Get(trades[i], "makerAddress"))
               \/ Lookup(c, trades[i]["makerAddress"].v) # 0)
            => nansen[i] = NansenResponse("neterr", <<>>)}

\* lines 97-111, 161-174, 189-203: classify, store, render.
FetchedAndStored(handler, s, action, f, outcome_filter) ==
    /\ f.kind = "ok"
    /\ \E nansen \in NansenAnswers(f.trades, cache) :
         LET r == classify_trades(f.trades, cache, apiKey, nansen) IN
         /\ cache' = r.cache
         /\ user_data' = StoreTrades(user_data, s, r.smart_trades)
         /\ reply' = [reply EXCEPT ![s] = build_message(r.smart_trades, outcome_filter)]
         /\ lastOp' = Op(handler, s, action, 1, f, r.log)

\* /smartmoney; `fetches` is what query_trades can return or raise in this run.
smartmoney_handler(s, fetches) ==
    /\ \E f \in fetches :
         \/ FetchFailed("smartmoney_handler", s, "", f, "apology_load")
         \/ FetchedAndStored("smartmoney_handler", s, "", f, NoFilter)
    /\ UNCHANGED <<apiKey, lastCall, lastAnswer, prevCall, fetchVars>>

\* The inline buttons send filter:YES, filter:NO and filter:REFRESH; any
\* other data matching ^filter: reaches the handler too.
Actions == {"YES", "NO", "REFRESH", ""}

filter_callback(s, action, fetches) ==
    /\ IF action = "REFRESH"
         THEN \E f \in fetches :
                \/ FetchFailed("filter_callback", s, action, f, "apology_refresh")
                \/ FetchedAndStored("filter_callback", s, action, f, NoFilter)
         ELSE LET cached == user_data[s]
                  outcome_filter == IF action \in {"YES", "NO"} THEN action ELSE NoFilter
              IN IF HasCache(cached)
                   THEN /\ reply' = [reply EXCEPT
                                       ![s] = build_message(cached.list, outcome_filter)]
                        /\ lastOp' = Op("filter_callback", s, action, 0, NoOut, <<>>)
                        /\ UNCHANGED <<user_data, cache>>
                   ELSE \E f \in fetches :
                          \/ FetchFailed("filter_callback", s, action, f, "apology_refresh")
                          \/ FetchedAndStored("filter_callback", s, action, f, outcome_filter)
    /\ UNCHANGED <<apiKey, lastCall, lastAnswer, prevCall, fetchVars>>

(***************************************************************************)
(* SpecNormalize: _normalize_item applied to one raw item after another.   *)
(***************************************************************************)
\* How a raw item can carry one of a field's names.
Presence == {"absent", "null", "value"}

\* The object in which every name n is absent, null or a value that tells
\* the name, as `how` says.
Carrying(names, how) ==
    [n \in {k \in names : how[k] # "absent"} |->
        IF how[n] = "null" THEN Null ELSE Str("v:" \o n)]

Range(s) == {s[i] : i \in 1..Len(s)}

ObjectsOver(names) == {Carrying(names, how) : how \in [names -> Presence]}

\* What a raw item can carry under "market".
MarketValues ==
    {Null, Str("m3"), Str(""), List(<<>>), List(<<Str("m3")>>)}
    \cup {Dict(d) : d \in ObjectsOver(Range(CANDIDATE_MARKET_ID_FIELDS))}
    \cup {Dict(d) : d \in ObjectsOver(Range(CANDIDATE_MARKET_QUESTION_FIELDS))}

\* Raw items: one logical field varied over all its names at a time, the
\* market sub-object of every kind, and the items of the fetch scenarios.
RawItems ==
    ObjectsOver(Range(CANDIDATE_MAKER_FIELDS))
    \cup ObjectsOver(Range(CANDIDATE_OUTCOME_FIELDS))
    \cup ObjectsOver(Range(CANDIDATE_SIZE_FIELDS))
    \cup ObjectsOver(Range(CANDIDATE_PRICE_FIELDS))
    \cup {[market |-> v] : v \in MarketValues}
    \cup {[id |-> Str("9"), maker |-> Str("0xB"), market |-> v] : v \in MarketValues}
    \cup {ItemA.v, ItemB.v, ItemN.v, ItemNoOutcome.v}

\* query_trades at line 176, the one-item list `items` just received.
Received ==
    /\ fetch_pc = "loop" /\ ci = 1 /\ ti \in 1..Len(CANDIDATE_TIME_FIELDS)
    /\ last_error = NoError /\ q_out = NoOut
    /\ requests = <<<<CANDIDATE_COLLECTIONS[ci], CANDIDATE_TIME_FIELDS[ti]>>>>
    /\ \E it \in RawItems : lastResp = Response("list", "", <<Dict(it)>>)

\* line 176: return [_normalize_item(it, time_field) for it in items]
Normalize ==
    /\ fetch_pc = "loop"
    /\ LET n == NormalizeAll(lastResp.items, CANDIDATE_TIME_FIELDS[ti]) IN
       /\ fetch_pc' = IF n.exc = "none" THEN "returned" ELSE "raised"
       /\ q_out' = QueryOut(IF n.exc = "none" THEN "ok" ELSE n.exc, n.trades,
                            last_error, requests)
    /\ UNCHANGED <<ci, ti, last_error, requests, lastResp, classifyVars, appVars>>

(***************************************************************************)
(* SpecRender: the handlers of app.py in a conversation whose cached set   *)
(* an earlier load has left behind, short or longer than one message       *)
(* shows.                                                                  *)
(***************************************************************************)
\* The records an earlier load can have cached: {**trade, "labels": labels}.
CachedRecords ==
    {Enrich(_normalize_item(ItemA.v, "matchTime"), <<Str("Fund")>>),
     Enrich(_normalize_item(ItemB.v, "matchTime"), <<Str("Whale"), Str("Smart Trader")>>),
     Enrich(_normalize_item(ItemNoOutcome.v, "matchTime"), <<Str("Fund")>>)}

MaxPattern == 2
MaxExtraRows == 2

\* n records repeating a pattern.
Cycle(pattern, n) == [i \in 1..n |-> pattern[((i - 1) % Len(pattern)) + 1]]

CachedLists ==
    SeqsUpTo(CachedRecords, MaxPattern)
    \cup {Cycle(pattern, n) :
            pattern \in SeqsUpTo(CachedRecords, MaxPattern) \ {<<>>},
            n \in (max_rows - 1)..(max_rows + MaxExtraRows)}

InitRender ==
    /\ FetchIdle /\ ClassifyIdle
    /\ apiKey = TRUE
    /\ cache = <<>>
    /\ \E l \in CachedLists :
          user_data = [s \in Sessions |-> IF s \in ActiveSessions THEN Cached(l) ELSE NoCache]
    /\ reply = [s \in Sessions |-> NoReply]
    /\ lastOp = NoOp

(***************************************************************************)
(* The specifications.                                                     *)
(***************************************************************************)
InitFetch ==
    /\ FetchIdle /\ ClassifyIdle /\ AppIdle
    /\ apiKey = TRUE /\ cache = <<>>

NextFetch == Call \/ Attempt \/ Exhausted

SpecFetch == InitFetch /\ [][NextFetch]_vars

(* Every POST of _post_graphql carries timeout=20 and the loop body has no  *)
(* other suspension point, so an invocation that is in its loops takes its *)
(* next step.                                                              *)
SpecFetchLive == SpecFetch /\ WF_vars(Attempt \/ Exhausted)

NextNormalize == Normalize

InitNormalize ==
    /\ Received /\ ClassifyIdle /\ AppIdle
    /\ apiKey = TRUE /\ cache = <<>>

SpecNormalize == InitNormalize /\ [][NextNormalize]_vars

InitClassify ==
    /\ FetchIdle /\ ClassifyIdle /\ AppIdle
    /\ apiKey \in BOOLEAN
    /\ cache \in {<<>>, Filled(lru_maxsize - 1)}

NextClassify == Classify

SpecClassify == InitClassify /\ [][NextClassify]_vars

InitLabels ==
    /\ FetchIdle /\ ClassifyIdle /\ AppIdle
    /\ apiKey \in BOOLEAN
    /\ cache = <<>>

NextLabels == ClassifyAny

SpecLabels == InitLabels /\ [][NextLabels]_vars

Init ==
    /\ FetchIdle /\ ClassifyIdle /\ AppIdle
    /\ apiKey \in BOOLEAN
    /\ cache = <<>>

Next ==
    \E s \in ActiveSessions :
        \/ smartmoney_handler(s, FetchOutcomes)
        \/ \E action \in Actions : filter_callback(s, action, FetchOutcomes)

Spec == Init /\ [][Next]_vars

\* The handlers of every conversation, interleaved, against an endpoint that
\* fails or serves one of three trade lists.
SessionEndpoints ==
    {Uniform(Response("neterr", "e1", <<>>)),
     AnswerAt(<<1, 1>>, Response("list", "", <<ItemA>>), Response("errors", "e1", <<>>)),
     AnswerAt(<<1, 1>>, Response("list", "", <<ItemB>>), Response("errors", "e1", <<>>)),
     AnswerAt(<<1, 1>>, Response("list", "", <<ItemB, ItemA>>), Response("errors", "e1", <<>>))}

SessionFetches == {query_trades(ep) : ep \in SessionEndpoints}

NextSessions ==
    \E s \in Sessions :
        \/ smartmoney_handler(s, SessionFetches)
        \/ \E action \in Actions : filter_callback(s, action, SessionFetches)

SpecSessions == Init /\ [][NextSessions]_vars

\* The handlers of the conversation observed, against the same endpoint.
NextRender ==
    \E s \in ActiveSessions :
        \/ smartmoney_handler(s, SessionFetches)
        \/ \E action \in Actions : filter_callback(s, action, SessionFetches)

SpecRender == InitRender /\ [][NextRender]_vars


(***************************************************************************)
(* The fetcher's search (SpecFetch).                                       *)
(***************************************************************************)
\* The pairs in priority order: collections in list order and, for each
\* collection, the time fields in list order.
NumPairs == Len(CANDIDATE_COLLECTIONS) * Len(CANDIDATE_TIME_FIELDS)

AllPairs ==
    [k \in 1..NumPairs |->
        <<CANDIDATE_COLLECTIONS[((k - 1) \div Len(CANDIDATE_TIME_FIELDS)) + 1],
          CANDIDATE_TIME_FIELDS[((k - 1) % Len(CANDIDATE_TIME_FIELDS)) + 1]>>]

IsNonemptyList(r) == r.kind = "list" /\ r.items # <<>>

\* The answers of decision rules 1-4: a failure that is recorded, or no data.
IsSkippable(r) ==
    \/ r.kind \in {"neterr", "http", "badjson", "errors", "payload_notlist", "data_missing"}
    \/ (r.kind = "list" /\ r.items = <<>>)

\* The position of the loops, counted in pairs already left behind.
PairsPassed == (ci - 1) * Len(CANDIDATE_TIME_FIELDS) + (ti - 1)

(* C1: in one invocation of query_trades the pairs are requested in        *)
(* priority order, each once; a pair whose answer is a recorded failure or *)
(* an empty list is skipped (the loop moves to the next pair); the first   *)
(* nonempty list ends the search: while the loop runs no nonempty list has *)
(* been received, and a returned invocation returns the normalization of   *)
(* the items of the latest answer, the only nonempty list received, with   *)
(* that pair's time field, and no request follows it.                      *)
C1_FirstNonemptyWins ==
    /\ Len(requests) <= NumPairs
    /\ requests = SubSeq(AllPairs, 1, Len(requests))
    /\ fetch_pc = "loop" =>
          /\ PairsPassed = Len(requests)
          /\ ~IsNonemptyList(lastResp)
    /\ (requests # <<>> /\ IsSkippable(lastResp)) =>
          \/ fetch_pc = "loop"
          \/ fetch_pc = "raised" /\ Len(requests) = NumPairs
    /\ (requests # <<>> /\ IsNonemptyList(lastResp)) =>
          /\ fetch_pc \in {"returned", "raised"}
          /\ fetch_pc = "raised" => \E i \in 1..Len(lastResp.items) : ~IsDict(lastResp.items[i])
    /\ fetch_pc = "returned" =>
          /\ IsNonemptyList(lastResp)
          /\ q_out.kind = "ok"
          /\ q_out.requests = requests
          /\ Len(q_out.trades) = Len(lastResp.items)
          /\ \A i \in 1..Len(lastResp.items) :
                /\ IsDict(lastResp.items[i])
                /\ q_out.trades[i] =
                     _normalize_item(lastResp.items[i].v, requests[Len(requests)][2])

\* A later pair wins after earlier pairs were skipped.
C1_Witness ==
    /\ fetch_pc = "returned"
    /\ Len(requests) = Len(CANDIDATE_TIME_FIELDS) + 2
    /\ Len(q_out.trades) = 2
    /\ q_out.trades[1].makerAddress = Str("0xB")

\* The diagnostic the decision rule records for an answer to the pair.
DiagnosticOf(r, pair) ==
    CASE r.kind \in {"neterr", "http"} ->
            Diag("Failed to call Polymarket subgraph", r.text, "", "")
      [] r.kind = "badjson" -> Diag("Invalid JSON from Polymarket", r.text, "", "")
      [] r.kind = "errors" -> Diag("Polymarket query errors", r.text, "", "")
      [] r.kind = "payload_notlist" -> Diag("Unexpected response", r.text, pair[1], pair[2])
      [] OTHER -> Diag("Combination valid but empty", "", pair[1], pair[2])

(* C2: when every pair was tried and none gave a nonempty list,            *)
(* query_trades raises PolymarketError, and its message carries the        *)
(* diagnostic of the answer to the last pair, whatever its kind; an        *)
(* invocation raises PolymarketError in no other case.                     *)
C2_LastDiagnostic ==
    /\ (fetch_pc = "raised" /\ q_out.kind = "PolymarketError") =>
          /\ Len(requests) = NumPairs
          /\ IsSkippable(lastResp)
          /\ q_out.last_error = DiagnosticOf(lastResp, AllPairs[NumPairs])
    /\ (fetch_pc = "raised" /\ Len(requests) = NumPairs /\ IsSkippable(lastResp)) =>
          q_out.kind = "PolymarketError"
    /\ (fetch_pc = "loop" /\ requests # <<>>) =>
          last_error = DiagnosticOf(lastResp, requests[Len(requests)])

\* Exhaustion after a schema error for the last pair.
C2_Witness ==
    /\ fetch_pc = "raised"
    /\ q_out.kind = "PolymarketError"
    /\ lastResp.kind = "errors"
    /\ q_out.last_error = Diag("Polymarket query errors", "e2", "", "")

\* Exhaustion after an empty list for the last pair.
C2_WitnessEmpty ==
    /\ fetch_pc = "raised"
    /\ q_out.kind = "PolymarketError"
    /\ lastResp = Response("list", "", <<>>)
    /\ q_out.last_error = Diag("Combination valid but empty", "", "marketTrades", "filledAt")

(***************************************************************************)
(* The session filter cache (Spec).                                        *)
(***************************************************************************)
\* The outcome filter a button press asks for.
FilterOf(action) == IF action \in {"YES", "NO"} THEN action ELSE NoFilter

\* The cached records an outcome filter selects.
Visible(list, filter_outcome) ==
    SelectSeq(list, LAMBDA t : filter_outcome = NoFilter \/ OutcomeOf(t) = filter_outcome)

\* The trades of a fetch that the classifier called smart, in fetch order,
\* each with the labels the classifier returned for its maker.
RECURSIVE SmartOf(_, _)
SmartOf(trades, log) ==
    IF trades = <<>> \/ log = <<>> THEN <<>>
    ELSE (IF Head(log).called /\ Head(log).exc = "none" /\ Head(log).smart
            THEN <<Enrich(Head(trades), Head(log).labels)>>
            ELSE <<>>)
         \o SmartOf(Tail(trades), Tail(log))

IsRefresh(op) == op.handler = "filter_callback" /\ op.action = "REFRESH"
IsFilter(op) == op.handler = "filter_callback" /\ op.action # "REFRESH"
IsLoad(op) == op.handler = "smartmoney_handler"

IsApology(m) == m.kind \in {"apology_load", "apology_refresh"}

(* C3: a filter press in a conversation that holds a cached result set     *)
(* (an empty one included) calls neither query_trades nor is_smart_money   *)
(* and leaves every cached set and the classifier's cache as they were;    *)
(* only the message changes, to the cached records the filter selects.     *)
C3_FilterReadOnly ==
    [][(IsFilter(lastOp') /\ user_data[lastOp'.session].set) =>
          /\ lastOp'.passes = 0
          /\ lastOp'.log = <<>>
          /\ user_data' = user_data
          /\ cache' = cache
          /\ reply'[lastOp'.session].filter = FilterOf(lastOp'.action)
          /\ Len(user_data[lastOp'.session].list) <= max_rows =>
                reply'[lastOp'.session].rows =
                    Visible(user_data[lastOp'.session].list, FilterOf(lastOp'.action))]_vars

\* filter:NO over a cache holding the one YES trade of maker 0xA.
C3_Witness ==
    /\ IsFilter(lastOp) /\ lastOp.action = "NO" /\ lastOp.passes = 0
    /\ Len(user_data["chat1"].list) = 1
    /\ user_data["chat1"].list[1].outcome = Str("YES")
    /\ user_data["chat1"].list[1].labels = <<Str("Fund")>>
    /\ reply["chat1"] = Message("no_match", "NO", <<>>)

\* A filter press over a cached empty set.
C3_WitnessEmptyCache ==
    /\ IsFilter(lastOp) /\ lastOp.passes = 0
    /\ user_data["chat1"] = Cached(<<>>)

(* C4: after a refresh whose fetch succeeded, the conversation's cached    *)
(* set is exactly the smart trades of the new fetch, in fetch order (no    *)
(* record of the prior set is carried over), and no outcome filter is      *)
(* active.                                                                 *)
C4_RefreshReplaces ==
    (IsRefresh(lastOp) /\ lastOp.fetch.kind = "ok") =>
        /\ Len(lastOp.log) = Len(lastOp.fetch.trades)
        /\ user_data[lastOp.session] = Cached(SmartOf(lastOp.fetch.trades, lastOp.log))
        /\ reply[lastOp.session].filter = NoFilter
        /\ ~IsApology(reply[lastOp.session])

\* A refresh that stored one smart trade of maker 0xB and dropped the rest.
C4_Witness ==
    /\ IsRefresh(lastOp) /\ lastOp.fetch.kind = "ok"
    /\ Len(lastOp.fetch.trades) = 2
    /\ Len(user_data["chat1"].list) = 1
    /\ user_data["chat1"].list[1].makerAddress = Str("0xB")
    /\ reply["chat1"].kind = "trades"

InCache(c, address) == \E i \in 1..Len(c) : c[i].key = address

\* The makers of a trade list that are present.
Makers(trades) ==
    {trades[i].makerAddress : i \in {j \in 1..Len(trades) : ~Falsy(trades[j].makerAddress)}}

NetCalls(log, maker) == Cardinality({i \in 1..Len(log) : log[i].maker = maker /\ log[i].net})

(* C5 as stated: every refresh makes one fetch pass and exactly one        *)
(* classification network call per distinct maker of the new trade set,    *)
(* whatever the classifier's cache holds.                                  *)
C5_OneCallPerMaker ==
    IsRefresh(lastOp) =>
        /\ lastOp.passes = 1
        /\ lastOp.fetch.kind = "ok" =>
              \A m \in Makers(lastOp.fetch.trades) : NetCalls(lastOp.log, m) = 1

(* C5 amended: every refresh makes exactly one fetch pass, and its         *)
(* classification loop sends a POST for a trade exactly when the trade's   *)
(* maker is present, the API key is set and no result for that maker was   *)
(* memoized before the refresh or by an earlier trade of the batch.        *)
C5_CallsOnlyOnMiss ==
    [][IsRefresh(lastOp') =>
          /\ lastOp'.passes = 1
          /\ lastOp'.fetch.kind = "ok" =>
                /\ Len(lastOp'.log) = Len(lastOp'.fetch.trades)
                /\ \A i \in 1..Len(lastOp'.log) :
                      LET m == lastOp'.fetch.trades[i].makerAddress IN
                      /\ lastOp'.log[i].maker = m
                      /\ lastOp'.log[i].net <=>
                            /\ ~Falsy(m)
                            /\ apiKey
                            /\ ~InCache(cache, m.v)
                            /\ ~\E j \in 1..(i - 1) :
                                   /\ lastOp'.log[j].maker = m
                                   /\ lastOp'.log[j].net
                                   /\ lastOp'.log[j].exc = "none"]_vars

\* A refresh with two trades of one maker whose classification failed twice:
\* two POSTs for one maker.
C5_Witness ==
    /\ IsRefresh(lastOp) /\ lastOp.fetch.kind = "ok"
    /\ Len(lastOp.log) = 2
    /\ lastOp.log[1].maker = lastOp.log[2].maker
    /\ lastOp.log[1].net /\ lastOp.log[2].net

\* A refresh whose only maker was memoized before: no POST at all.
C5_WitnessMemoized ==
    /\ IsRefresh(lastOp) /\ lastOp.fetch.kind = "ok"
    /\ Len(lastOp.log) = 1
    /\ lastOp.log[1].called /\ ~lastOp.log[1].net /\ lastOp.log[1].smart

(* C6: a filter press in a conversation without a cached set first loads   *)
(* as /smartmoney does (one fetch pass, the makers classified, the smart   *)
(* trades stored as the cached set; nothing stored when the fetch fails)   *)
(* and then shows the new set under the requested filter.                  *)
C6_FilterLoadsFirst ==
    [][(IsFilter(lastOp') /\ ~user_data[lastOp'.session].set) =>
          LET s == lastOp'.session IN
          /\ lastOp'.passes = 1
          /\ lastOp'.fetch.kind # "ok" => user_data' = user_data /\ IsApology(reply'[s])
          /\ lastOp'.fetch.kind = "ok" =>
                /\ Len(lastOp'.log) = Len(lastOp'.fetch.trades)
                /\ user_data'[s] = Cached(SmartOf(lastOp'.fetch.trades, lastOp'.log))
                /\ \A i \in 1..Len(lastOp'.log) :
                      lastOp'.log[i].called <=> ~Falsy(lastOp'.fetch.trades[i].makerAddress)
                /\ reply'[s].filter = FilterOf(lastOp'.action)
                /\ Len(user_data'[s].list) <= max_rows =>
                      reply'[s].rows = Visible(user_data'[s].list, FilterOf(lastOp'.action))]_vars

\* filter:YES as the first interaction: two smart trades loaded, one shown.
C6_Witness ==
    /\ IsFilter(lastOp) /\ lastOp.action = "YES" /\ lastOp.passes = 1
    /\ Len(user_data["chat1"].list) = 2
    /\ Len(reply["chat1"].rows) = 1
    /\ reply["chat1"].filter = "YES"

(* C9: a classification that fails for one maker is not fatal: the handler *)
(* goes on to the remaining trades (every trade with a maker is            *)
(* classified), stores the smart trades without the failed ones, and       *)
(* answers with the result, not with an apology.                           *)
C9_ClassifyFailureNonFatal ==
    (lastOp.passes = 1 /\ lastOp.fetch.kind = "ok") =>
        /\ Len(lastOp.log) = Len(lastOp.fetch.trades)
        /\ \A i \in 1..Len(lastOp.log) :
              lastOp.log[i].called <=> ~Falsy(lastOp.fetch.trades[i].makerAddress)
        /\ user_data[lastOp.session] = Cached(SmartOf(lastOp.fetch.trades, lastOp.log))
        /\ Len(user_data[lastOp.session].list) =
              Cardinality({i \in 1..Len(lastOp.log) :
                              lastOp.log[i].exc = "none" /\ lastOp.log[i].smart})
        /\ ~IsApology(reply[lastOp.session])

\* /smartmoney, one trade fetched, its maker's classification raised
\* NansenError: an empty smart set is stored and shown.
C9_Witness ==
    /\ IsLoad(lastOp) /\ lastOp.fetch.kind = "ok"
    /\ Len(lastOp.fetch.trades) = 1
    /\ lastOp.log[1].exc = "NansenError"
    /\ user_data["chat1"] = Cached(<<>>)
    /\ reply["chat1"].kind = "none_found"

\* The first maker fails, the second trade is still classified and kept.
C9_WitnessRest ==
    /\ lastOp.fetch.kind = "ok" /\ Len(lastOp.log) = 2
    /\ lastOp.log[1].exc = "NansenError"
    /\ lastOp.log[2].net /\ lastOp.log[2].smart
    /\ Len(user_data["chat1"].list) = 1

(* C10: a handler whose fetch fails stops there (no classification) and    *)
(* answers with the apology; a handler whose fetch succeeds stores the     *)
(* smart set, empty or not, and answers with the result view: an empty     *)
(* smart set is shown as "none found", never as the apology, and a failed  *)
(* fetch never as a result view.                                           *)
C10_FailureIsNotEmpty ==
    lastOp.passes = 1 =>
        /\ lastOp.fetch.kind # "ok" =>
              /\ reply[lastOp.session] =
                    Apology(IF IsLoad(lastOp) THEN "apology_load" ELSE "apology_refresh")
              /\ lastOp.log = <<>>
        /\ lastOp.fetch.kind = "ok" =>
              /\ user_data[lastOp.session].set
              /\ reply[lastOp.session].kind \in {"none_found", "no_match", "trades"}
              /\ user_data[lastOp.session].list = <<>> =>
                    reply[lastOp.session].kind = "none_found"

\* A refresh whose fetch ran out of pairs, over a cached set that is kept.
C10_Witness ==
    /\ IsRefresh(lastOp) /\ lastOp.fetch.kind = "PolymarketError"
    /\ reply["chat1"] = Apology("apology_refresh")
    /\ user_data["chat1"].set

\* A successful load with no smart trade.
C10_WitnessEmpty ==
    /\ IsLoad(lastOp) /\ lastOp.fetch.kind = "ok"
    /\ user_data["chat1"] = Cached(<<>>)
    /\ reply["chat1"] = Message("none_found", NoFilter, <<>>)

(***************************************************************************)
(* The classifier's memo cache (SpecClassify).                             *)
(***************************************************************************)
Entries(c) == {c[i] : i \in 1..Len(c)}
Keys(c) == {c[i].key : i \in 1..Len(c)}

(* C7: when is_smart_money is called twice in a row with the same address  *)
(* (the chain left to its default) and the first call returned a result,   *)
(* the second call sends no POST and returns that same result; the first   *)
(* call sent one POST unless it was itself answered from the cache, so the *)
(* two calls of a new address make exactly one network call.               *)
C7_SecondCallMemoized ==
    (lastCall.address = prevCall.address /\ prevCall # NoCall /\ prevCall.out.exc = "none") =>
        /\ lastCall.hit
        /\ ~lastCall.net
        /\ lastCall.out = prevCall.out
        /\ prevCall.net <=> ~prevCall.hit

\* Two calls for 0xA: the first asked the provider, the second did not.
C7_Witness ==
    /\ prevCall.address = "0xA" /\ lastCall.address = "0xA"
    /\ prevCall.net /\ prevCall.out.exc = "none" /\ prevCall.out.smart
    /\ lastCall.hit /\ ~lastCall.net

ConfigFailed(op) == \E i \in 1..Len(op.log) : op.log[i].exc = "RuntimeError"

(* C11: a handler run that meets the configuration failure (the API key is *)
(* missing when is_smart_money is called) ends as a failed operation: the  *)
(* conversation gets the apology and no smart set is stored from that run; *)
(* it does not end as a success whose smart set lacks the affected trades. *)
C11_ConfigFailurePropagates ==
    [][(lastOp'.passes = 1 /\ ConfigFailed(lastOp')) =>
          /\ IsApology(reply'[lastOp'.session])
          /\ user_data' = user_data]_vars

\* /smartmoney without the API key: the fetched trade of maker 0xA is
\* dropped, an empty smart set is stored and shown as a result.
C11_Swallowed ==
    /\ ~apiKey
    /\ IsLoad(lastOp) /\ lastOp.fetch.kind = "ok"
    /\ Len(lastOp.log) = 1
    /\ lastOp.log[1].maker = Str("0xA") /\ lastOp.log[1].exc = "RuntimeError"
    /\ user_data["chat1"] = Cached(<<>>)
    /\ reply["chat1"] = Message("none_found", NoFilter, <<>>)

\* An answer that carries data: a nonempty list all of whose items are objects.
IsTradeList(r) ==
    /\ IsNonemptyList(r)
    /\ \A i \in 1..Len(r.items) : IsDict(r.items[i])

(* C12: query_trades raises no fault other than PolymarketError: after an  *)
(* answer of any kind that is not a nonempty list of objects the loop goes *)
(* on to the next pair, or the invocation ends with PolymarketError once   *)
(* every pair was tried.                                                   *)
C12_OnlyFetchError ==
    /\ fetch_pc = "raised" => q_out.kind = "PolymarketError"
    /\ (requests # <<>> /\ ~IsTradeList(lastResp)) =>
          \/ fetch_pc = "loop"
          \/ /\ fetch_pc = "raised"
             /\ q_out.kind = "PolymarketError"
             /\ Len(requests) = NumPairs

\* The first pair is answered {"data": null}: the invocation ends with
\* AttributeError after one request.
C12_Fault ==
    /\ fetch_pc = "raised"
    /\ Len(requests) = 1
    /\ lastResp.kind = "data_notdict"
    /\ q_out.kind = "AttributeError"

\* The expected shape of the provider's answer: data.items is a list of
\* objects each carrying a string label.
IsLabelList(r) ==
    /\ r.kind = "list"
    /\ \A i \in 1..Len(r.items) :
          /\ IsDict(r.items[i])
          /\ "label" \in DOMAIN r.items[i].v
          /\ r.items[i].v["label"].t = "str"

(* C13: a call of is_smart_money that reached the provider ends with a     *)
(* result or with NansenError, never with another fault, and it ends with  *)
(* NansenError whenever the answer is a transport failure, a status other  *)
(* than 200, or a body that is not the expected list of label objects      *)
(* under data.items.                                                       *)
C13_OnlyClassificationError ==
    lastCall.net =>
        /\ lastCall.out.exc \in {"none", "NansenError"}
        /\ ~IsLabelList(lastAnswer) => lastCall.out.exc = "NansenError"

\* Status 200 with a body that is not JSON: response.json() raises ValueError.
C13_Fault ==
    /\ lastCall.net
    /\ lastAnswer.kind = "badjson"
    /\ lastCall.out.exc = "ValueError"

(***************************************************************************)
(* What the handlers keep and show (Spec).                                 *)
(***************************************************************************)
\* The positions of a fetched list whose classification returned smart, in
\* increasing order.
KeptIndices(log) ==
    SelectSeq([i \in 1..Len(log) |-> i],
              LAMBDA i : log[i].called /\ log[i].exc = "none" /\ log[i].smart)

(* C14: after a handler run whose fetch succeeded, the cached set is the   *)
(* subsequence of the fetched trades, in fetch order, of exactly the       *)
(* trades whose maker is present and whose classification returned smart;  *)
(* each cached record is its fetched trade with the labels the classifier  *)
(* returned added; a trade without a maker is never passed to              *)
(* is_smart_money, and every trade with a maker is.                        *)
C14_SmartSubsequence ==
    (lastOp.passes = 1 /\ lastOp.fetch.kind = "ok") =>
        LET trades == lastOp.fetch.trades
            log == lastOp.log
            kept == KeptIndices(log)
            list == user_data[lastOp.session].list
        IN /\ Len(log) = Len(trades)
           /\ \A i \in 1..Len(trades) :
                 /\ log[i].maker = trades[i].makerAddress
                 /\ log[i].called <=> ~Falsy(trades[i].makerAddress)
                 /\ ~log[i].called => ~log[i].net
           /\ user_data[lastOp.session].set
           /\ Len(list) = Len(kept)
           /\ \A k \in 1..Len(kept) :
                 /\ DOMAIN list[k] = DOMAIN trades[kept[k]] \cup {"labels"}
                 /\ list[k].labels = log[kept[k]].labels
                 /\ \A f \in DOMAIN trades[kept[k]] : list[k][f] = trades[kept[k]][f]

\* Two trades fetched, both makers smart: both cached, in fetch order.
C14_Witness ==
    /\ lastOp.passes = 1 /\ lastOp.fetch.kind = "ok"
    /\ Len(lastOp.fetch.trades) = 2
    /\ Len(user_data["chat1"].list) = 2
    /\ user_data["chat1"].list[1].makerAddress = Str("0xA")
    /\ user_data["chat1"].list[2].makerAddress = Str("0xB")
    /\ user_data["chat1"].list[2].labels = <<Str("Fund")>>

\* A trade without a maker ahead of a smart one: only the second is cached.
C14_WitnessAbsentMaker ==
    /\ lastOp.passes = 1 /\ lastOp.fetch.kind = "ok"
    /\ Len(lastOp.log) = 2
    /\ ~lastOp.log[1].called /\ lastOp.log[2].smart
    /\ Len(user_data["chat1"].list) = 1

\* The spellings of a filter token that fold to it in upper case.
Spellings(token) ==
    IF token = "YES" THEN {"yes", "Yes", "YES"}
    ELSE IF token = "NO" THEN {"no", "No", "NO"}
    ELSE {}

\* The selection predicate of the contract: the record's stored outcome,
\* folded to upper case, is the filter token; every record without a filter.
Selected(list, filter_outcome) ==
    SelectSeq(list,
              LAMBDA rec : \/ filter_outcome = NoFilter
                           \/ /\ rec.outcome.t = "str"
                              /\ rec.outcome.v \in Spellings(filter_outcome))

FirstRows(list, n) == SubSeq(list, 1, IF Len(list) < n THEN Len(list) ELSE n)

(* C15 as stated: the records a handler shows are exactly the cached       *)
(* records the active filter selects (all of them without a filter), and   *)
(* showing a cached set does not change it.                                *)
C15_VisibleIsProjection ==
    [][(lastOp' # lastOp /\ ~IsApology(reply'[lastOp'.session])) =>
          LET s == lastOp'.session IN
          /\ reply'[s].rows = Selected(user_data'[s].list, reply'[s].filter)
          /\ (IsFilter(lastOp') /\ user_data[s].set) => user_data' = user_data]_vars

(* C15 amended: the records a handler shows are the first max_rows of the  *)
(* cached records the active filter selects (of all cached records without *)
(* a filter), in cached order; a record without an outcome matches no      *)
(* filter; showing a cached set does not change it.                        *)
C15_VisibleIsFirstRows ==
    [][(lastOp' # lastOp /\ ~IsApology(reply'[lastOp'.session])) =>
          LET s == lastOp'.session IN
          /\ reply'[s].filter = (IF IsFilter(lastOp') THEN FilterOf(lastOp'.action) ELSE NoFilter)
          /\ reply'[s].rows =
                FirstRows(Selected(user_data'[s].list, reply'[s].filter), max_rows)
          /\ (IsFilter(lastOp') /\ user_data[s].set) => user_data' = user_data]_vars

\* filter:NO over 13 cached records whose outcome is stored as "no": the
\* message shows 12 of them and the cached set still holds 13.
C15_Witness ==
    /\ IsFilter(lastOp) /\ lastOp.action = "NO" /\ lastOp.passes = 0
    /\ Len(user_data["chat1"].list) = max_rows + 1
    /\ \A i \in 1..(max_rows + 1) : user_data["chat1"].list[i].outcome = Str("no")
    /\ Len(reply["chat1"].rows) = max_rows

\* filter:YES over a YES record and a record without an outcome: one shown.
C15_WitnessAbsentOutcome ==
    /\ IsFilter(lastOp) /\ lastOp.action = "YES" /\ lastOp.passes = 0
    /\ Len(user_data["chat1"].list) = 2
    /\ user_data["chat1"].list[2].outcome = Null
    /\ Len(reply["chat1"].rows) = 1

(***************************************************************************)
(* Normalization (SpecNormalize).                                          *)
(***************************************************************************)
\* The first of a field's names, in order, under which the object carries a
\* value that is not null; null when there is none.
Resolved(obj, names) ==
    LET found == {i \in 1..Len(names) : names[i] \in DOMAIN obj /\ obj[names[i]] # Null}
    IN IF found = {} THEN Null
       ELSE obj[names[CHOOSE i \in found : \A j \in found : i <= j]]

\* The market object of a raw item: an empty one when "market" is absent,
\* null or empty; none when it is not an object.
MarketObject(obj) ==
    IF "market" \notin DOMAIN obj THEN EmptyDict
    ELSE IF obj["market"].t = "dict" THEN obj["market"].v
    ELSE EmptyDict

MarketIsObject(obj) ==
    \/ "market" \notin DOMAIN obj
    \/ obj["market"].t = "dict"
    \/ Falsy(obj["market"])

(* C16: _normalize_item on a raw object never raises, and resolves maker,  *)
(* outcome, size, price, market id and market question each to the first   *)
(* present, non-null value among the field's names in order, null when     *)
(* none of them is present; a market that is absent or not an object gives *)
(* a market with null id and null question.                                *)
C16_FirstNonNullName ==
    fetch_pc # "loop" =>
        LET obj == lastResp.items[1].v IN
        /\ fetch_pc = "returned"
        /\ q_out.kind = "ok"
        /\ Len(q_out.trades) = 1
        /\ LET trade == q_out.trades[1] IN
           /\ trade.makerAddress = Resolved(obj, CANDIDATE_MAKER_FIELDS)
           /\ trade.outcome = Resolved(obj, CANDIDATE_OUTCOME_FIELDS)
           /\ trade.size = Resolved(obj, CANDIDATE_SIZE_FIELDS)
           /\ trade.price = Resolved(obj, CANDIDATE_PRICE_FIELDS)
           /\ DOMAIN trade.market = {"id", "question"}
           /\ MarketIsObject(obj) =>
                 /\ trade.market.id = Resolved(MarketObject(obj), CANDIDATE_MARKET_ID_FIELDS)
                 /\ trade.market.question =
                       Resolved(MarketObject(obj), CANDIDATE_MARKET_QUESTION_FIELDS)
           /\ ~MarketIsObject(obj) =>
                 /\ trade.market.id = Null
                 /\ trade.market.question = Null

\* makerAddress is null and maker absent: the maker is taken from trader.
C16_Witness ==
    /\ fetch_pc = "returned"
    /\ Len(lastResp.items) = 1
    /\ DOMAIN lastResp.items[1].v = {"makerAddress", "trader", "from"}
    /\ lastResp.items[1].v["makerAddress"] = Null
    /\ q_out.trades[1].makerAddress = Str("v:trader")

\* No maker name at all and a market that is a string.
C16_WitnessNoMaker ==
    /\ fetch_pc = "returned"
    /\ lastResp.items = <<Dict([market |-> Str("m3")])>>
    /\ q_out.trades[1].makerAddress = Null
    /\ q_out.trades[1].market = [id |-> Null, question |-> Null]

\* A labelling answer whose items, where they are objects that carry a
\* label, carry a string.
HasStringLabels(r) ==
    /\ r.kind = "list"
    /\ \A i \in 1..Len(r.items) :
          (IsDict(r.items[i]) /\ "label" \in DOMAIN r.items[i].v)
             => r.items[i].v["label"].t = "str"

\* The labels extracted from the answer, in response order.
Extracted(r) ==
    LET labelled == SelectSeq(r.items, LAMBDA x : IsDict(x) /\ "label" \in DOMAIN x.v)
    IN [i \in 1..Len(labelled) |-> labelled[i].v["label"]]

(* C17: for an answer whose data.items is a list of label objects, the     *)
(* call returns smart = TRUE exactly when one of the extracted labels is,  *)
(* letter for letter, one of SMART_LABELS, and returns as labels every     *)
(* extracted label that is not empty, in response order, smart or not.     *)
C17_SmartIffLabelInSet ==
    (lastCall.net /\ HasStringLabels(lastAnswer)) =>
        LET extracted == Extracted(lastAnswer) IN
        /\ lastCall.out.exc = "none"
        /\ lastCall.out.smart <=>
              \E i \in 1..Len(extracted) : extracted[i].v \in SMART_LABELS
        /\ lastCall.out.labels = SelectSeq(extracted, LAMBDA x : x.v # "")

\* Labels Whale and Smart Trader: smart, and both labels returned.
C17_Witness ==
    /\ lastCall.net
    /\ lastAnswer.items = <<Label("Whale"), Label("Smart Trader")>>
    /\ lastCall.out.smart
    /\ lastCall.out.labels = <<Str("Whale"), Str("Smart Trader")>>

\* The label "fund" differs from "Fund" in case: not smart, still returned.
C17_WitnessCase ==
    /\ lastCall.net
    /\ Len(lastAnswer.items) = 3 /\ lastAnswer.items[1] = Label("fund")
    /\ ~lastCall.out.smart
    /\ lastCall.out.labels = <<Str("fund")>>

(***************************************************************************)
(* Conversations side by side (SpecSessions).                              *)
(***************************************************************************)
(* C18: a handler run for one conversation (a load, a filter press or a    *)
(* refresh) leaves the cached set and the message, with its active filter, *)
(* of every other conversation as they were, whatever the order in which   *)
(* the conversations' updates arrive.                                      *)
C18_SessionsIsolated ==
    [][\A t \in Sessions :
          t # lastOp'.session =>
              /\ user_data'[t] = user_data[t]
              /\ reply'[t] = reply[t]]_vars

\* chat2 refreshes while chat1 holds a cached set shown under filter YES:
\* chat1 keeps both, and chat2's classification of the maker chat1 loaded
\* is answered from the shared memo cache.
C18_Witness ==
    /\ lastOp.session = "chat2" /\ IsRefresh(lastOp) /\ lastOp.fetch.kind = "ok"
    /\ Len(lastOp.log) = 1
    /\ lastOp.log[1].called /\ ~lastOp.log[1].net /\ lastOp.log[1].smart
    /\ Len(user_data["chat2"].list) = 1
    /\ Len(user_data["chat1"].list) = 2
    /\ reply["chat1"].filter = "YES"

(***************************************************************************)
(* Failures and the caches (Spec, SpecClassify).                           *)
(***************************************************************************)
FetchFailedIn(op) == op.passes = 1 /\ op.fetch.kind # "ok"

(* C19: a handler run whose fetch fails changes no cached set (a           *)
(* conversation that had one keeps it as it was, one that had none still   *)
(* has none) and no entry of the classifier's cache; a filter press that   *)
(* follows it in that conversation shows the old cached set without any    *)
(* fetch, or loads when there was none.                                    *)
C19_FailedFetchKeepsCache ==
    [][/\ FetchFailedIn(lastOp') =>
             /\ user_data' = user_data
             /\ cache' = cache
             /\ lastOp'.log = <<>>
       /\ (FetchFailedIn(lastOp) /\ IsFilter(lastOp') /\ lastOp'.session = lastOp.session) =>
             IF user_data[lastOp.session].set
               THEN /\ lastOp'.passes = 0
                    /\ user_data' = user_data
                    /\ reply'[lastOp.session].rows =
                          FirstRows(Visible(user_data[lastOp.session].list,
                                            FilterOf(lastOp'.action)), max_rows)
               ELSE lastOp'.passes = 1]_vars

\* A refresh that failed with two smart trades cached: both are still there.
C19_Witness ==
    /\ IsRefresh(lastOp) /\ FetchFailedIn(lastOp)
    /\ Len(user_data["chat1"].list) = 2
    /\ IsApology(reply["chat1"])

\* /smartmoney failed in a conversation without a cached set: still none.
C19_WitnessNoCache ==
    /\ IsLoad(lastOp) /\ FetchFailedIn(lastOp)
    /\ user_data["chat1"] = NoCache

\* The trades of a batch, after the i-th, that have the i-th trade's maker.
LaterOfMaker(log, i) == {j \in (i + 1)..Len(log) : log[j].maker = log[i].maker}

Failed(entry) == entry.called /\ entry.exc # "none"

(* C20: a call of is_smart_money that fails stores nothing: a maker whose   *)
(* call failed is not in the memo cache unless another call for it         *)
(* returned, and the next call for that maker is not answered from the     *)
(* cache; it sends its own POST whenever the failed call had sent one, so  *)
(* within one batch each trade of a maker that keeps failing causes a POST *)
(* of its own.                                                             *)
C20_FailureNotMemoized ==
    [][(lastOp' # lastOp /\ lastOp'.passes = 1 /\ lastOp'.fetch.kind = "ok") =>
          LET log == lastOp'.log IN
          /\ Keys(cache') =
                Keys(cache) \cup {log[i].maker.v :
                                     i \in {k \in 1..Len(log) : log[k].net /\ log[k].exc = "none"}}
          /\ \A i \in 1..Len(log) :
                Failed(log[i]) =>
                    /\ ~InCache(cache, log[i].maker.v)
                    /\ LaterOfMaker(log, i) # {} =>
                          LET j == CHOOSE j \in LaterOfMaker(log, i) :
                                       \A k \in LaterOfMaker(log, i) : j <= k
                          IN /\ log[j].called
                             /\ log[j].net <=> log[i].net
                             /\ ~log[j].net => Failed(log[j])]_vars

\* Two trades of maker 0xA in one batch, both calls refused by the provider:
\* two POSTs, and 0xA is not memoized afterwards.
C20_Witness ==
    /\ lastOp.passes = 1 /\ lastOp.fetch.kind = "ok"
    /\ Len(lastOp.log) = 2
    /\ lastOp.log[1].maker = Str("0xA") /\ lastOp.log[2].maker = Str("0xA")
    /\ lastOp.log[1].net /\ lastOp.log[1].exc = "NansenError"
    /\ lastOp.log[2].net /\ lastOp.log[2].exc = "NansenError"
    /\ ~InCache(cache, "0xA")

\* The first call for 0xA fails, the second, for the next trade, is sent
\* again and returns smart.
C20_WitnessRetry ==
    /\ lastOp.passes = 1 /\ lastOp.fetch.kind = "ok"
    /\ Len(lastOp.log) = 2
    /\ lastOp.log[1].maker = lastOp.log[2].maker
    /\ lastOp.log[1].exc = "NansenError"
    /\ lastOp.log[2].net /\ lastOp.log[2].smart

(***************************************************************************)
(* Termination of the fetcher's search (SpecFetchLive).                    *)
(***************************************************************************)
FetchEnded == fetch_pc \in {"returned", "raised"}

(* C21: an invocation of query_trades requests no pair twice and at most   *)
(* NumPairs = 35 pairs, and an invocation that has entered its loops ends, *)
(* with a result or with an error, which reports the requests it made.     *)
C21_TerminatesWithoutRetry ==
    /\ [](/\ Len(requests) <= NumPairs
          /\ \A i \in 1..Len(requests) : \A j \in 1..Len(requests) :
                i # j => requests[i] # requests[j])
    /\ [](FetchEnded => (q_out.kind # "none" /\ q_out.requests = requests))
    /\ (fetch_pc = "loop") ~> FetchEnded

\* An invocation that ended after 35 requests, the last one answered by a
\* transport failure.
C21_Witness ==
    /\ FetchEnded
    /\ Len(requests) = NumPairs
    /\ lastResp.kind = "neterr"
    /\ q_out.kind = "PolymarketError"

====
